---- MODULE Spec2Model ----
(***************************************************************************)
(* Capacity-exhaustion forecasting (src/src/feature2/feature2.py) and the  *)
(* guardrails of the ransomware pipeline (src/src/feature7, 8, 9).         *)
(*                                                                         *)
(* Numbers.  The program computes with floating-point GB and GB/day.  The  *)
(* model computes with exact fixed-point numbers: every coefficient,       *)
(* threshold and capacity is an integer count of 1/Den GB (Den = 100).     *)
(* Days are whole numbers.  The roots of the quadratic are never rounded:  *)
(* a root (-b + s*sqrt(D)) / (2a) is kept as the triple (a, b, D) and the  *)
(* sign s, and compared with whole days by exact integer arithmetic.       *)
(* Optional[int] is a record: None, or Some(d).                            *)
(* Rounding of the floating-point roots is outside the model, and on the   *)
(* grid of 1/Den the test abs(v) < 1e-6 is met by v = 0 alone.             *)
(*                                                                         *)
(* Two uses of the code are modelled, each from its own initial states:    *)
(* solve_for_threshold called on its own with arbitrary arguments, and     *)
(* analyze_repository from the fitted model to the CapacityForecast.       *)
(*                                                                         *)
(* The steps before the fit (interpolate_gaps, remove_outliers,            *)
(* analyze_dedup_trend, fit_model, the confidence classification) are each *)
(* called on their own from their own initial states as well (variable     *)
(* unit), and so are analyze_repository on series of samples that lie on a *)
(* line, where the least-squares fits are known exactly, and the three     *)
(* functions of the ransomware pipeline.  Outlier removal compares whole   *)
(* numbers: deviations and std are scaled by the sample count.             *)
(* r_squared and p_value are counts of 1/Den and of 1/PDen, the confidence *)
(* multiplier is a count of 1/FactorDen.                                   *)
(*                                                                         *)
(* RunSpec is one execution of run() over the repositories the API lists;  *)
(* StoreSpec is save_forecast called by two writers at once on the         *)
(* forecast table.                                                         *)
(***************************************************************************)
EXTENDS Integers, Sequences, FiniteSets, TLC

VARIABLES
    pc,        \* position: "call"/"returned" (solver called on its own),
               \*           "idle"/"analyzed" (analyze_repository),
               \*           "unit" (a pipeline step called on its own),
               \*           "run" (run()), "store" (save_forecast from two writers)
    call,      \* arguments of the solve_for_threshold call under test
    result,    \* its return value
    inputs,    \* what analyze_repository received from its collaborators
    forecast,  \* the CapacityForecast it returned
    fitted,    \* the dict fit_model returned, as it is when analyze_repository returns
    unit,      \* one step of the pipeline called on its own: function, arguments, return value
    run,       \* run(): position in its two loops and what happened to each repository
    store,     \* table feature2.metrics_capacity_forecast: the rows, by (repository_id, created_date)
    history,   \* table feature2.metrics_capacity_history: the keys that have a row
    txn,       \* save_forecast in progress, per writer: the forecast and the position in the call
    today,     \* the calendar day of NOW()
    last       \* per (repository_id, created_date): the forecast of the last committed write

vars == <<pc, call, result, inputs, forecast, fitted, unit, run, store, history, txn, today, last>>
solverVars == <<call, result>>
pipelineVars == <<inputs, forecast, fitted>>
tableVars == <<run, store, history, txn, today, last>>

\* ---------------------------------------------------------------- units
\* one GB is Den units; the dedup factor is a count of 1/FactorDen
FactorDen == 2 * 5
Den == FactorDen * FactorDen

\* ---------------------------------------------------------------- bounds
MaxA == 2          \* quadratic coefficient of a fit: -MaxA..MaxA tenths GB/day^2
MaxB == 12         \* linear coefficient of a fit: -MaxB..MaxB tenths GB/day
MaxC == 16         \* intercept of a fit: 0..MaxC steps of 5 GB
MaxCap == 100      \* total capacity of the repository, GB
MaxDay == 22       \* day index of the last sample: MaxDay-1..MaxDay
MaxAdj == 1        \* dedup adjustment factor: 1.0 - MaxAdj/10 .. 1.0 + MaxAdj/10
MaxCoef == 3       \* solver called on its own: |a|, |b| <= MaxCoef units
MaxLevel == 6      \* solver called on its own: c, threshold in 0..MaxLevel units
MaxNow == 2        \* solver called on its own: current_day in 0..MaxNow
MaxRatioStep == 1  \* dedup ratio observations: 1.0 + 0.5 * (0..MaxRatioStep)
MaxSeriesLen == 7  \* gap handling called on its own: days on the daily grid
MaxGapDays == 2    \* gap handling called on its own: max_gap_days in 1..MaxGapDays
MaxSpike == 40     \* outlier removal called on its own: the far value, GB
MaxGrowth == 5     \* analysis of a whole series: samples grow 0..MaxGrowth GB a day

\* ---------------------------------------------------------------- Optional[int]
None == [none |-> TRUE, v |-> 0]
Some(d) == [none |-> FALSE, v |-> d]

\* Python truthiness of an Optional[int]: None and 0 are falsy
Truthy(o) == ~o.none /\ o.v # 0

Abs(v) == IF v < 0 THEN -v ELSE v

\* abs(v) < 1e-6 for a number of v units of 1/Den
EpsInv == 1000000
NearZero(v) == Abs(v) < Den /\ Abs(v) * EpsInv < Den

\* ---------------------------------------------------------------- roots
\* s*sqrt(D) > m and s*sqrt(D) < m, for s in {1, -1}, D >= 0, m an integer
SqrtGT(s, D, m) == IF s = 1 THEN m < 0 \/ D > m * m ELSE m < 0 /\ D < m * m
SqrtLT(s, D, m) == IF s = 1 THEN m > 0 /\ D < m * m ELSE m > 0 \/ D > m * m

\* the root r = (-b + s*sqrt(D)) / (2a) of q = [a, b, D], against a whole day k
RootGT(q, s, k) ==
    IF q.a > 0 THEN SqrtGT(s, q.D, 2 * q.a * k + q.b)
               ELSE SqrtLT(s, q.D, 2 * q.a * k + q.b)
RootLT(q, s, k) ==
    IF q.a > 0 THEN SqrtLT(s, q.D, 2 * q.a * k + q.b)
               ELSE SqrtGT(s, q.D, 2 * q.a * k + q.b)
RootGE(q, s, k) == ~RootLT(q, s, k)

\* root s <= root t
RootLE(q, s, t) == s = t \/ q.D = 0 \/ (IF q.a > 0 THEN s = -1 ELSE s = 1)

\* int(r - base) for a root r > base: the largest j with r >= base + j
RECURSIVE Overshoot(_, _, _, _)
Overshoot(q, s, base, j) ==
    IF RootGE(q, s, base + j) THEN Overshoot(q, s, base, 2 * j) ELSE j
RECURSIVE FloorBetween(_, _, _, _, _)
FloorBetween(q, s, base, lo, hi) ==
    IF hi = lo + 1 THEN lo
    ELSE LET mid == (lo + hi) \div 2
         IN  IF RootGE(q, s, base + mid)
             THEN FloorBetween(q, s, base, mid, hi)
             ELSE FloorBetween(q, s, base, lo, mid)
TruncRootMinus(q, s, base) == FloorBetween(q, s, base, 0, Overshoot(q, s, base, 1))

\* ---------------------------------------------------------------- solve_for_threshold
\* SolveLinear without its "if b < 0: return None"
SolveLinearNoDecliningCheck(b, c_adj, current_day) ==
    IF NearZero(b) THEN None
    ELSE IF b < 0
    THEN LET num == c_adj + b * current_day     \* days_from_now = num / -b
         IN  IF num > 0 THEN Some(num \div (-b)) ELSE None
    ELSE LET num == -c_adj - b * current_day
         IN  IF num > 0 THEN Some(num \div b) ELSE None

\* linear branch: x = -c_adj / b; days_from_now = x - current_day
SolveLinear(b, c_adj, current_day) ==
    IF NearZero(b) THEN None
    ELSE IF b < 0 THEN None
    ELSE LET num == -c_adj - b * current_day    \* days_from_now = num / b
         IN  IF num > 0 THEN Some(num \div b) ELSE None

\* Discriminant with the sign of 4ac slipped
DiscriminantSignSlip(a, b, c_adj) == b * b + 4 * a * c_adj

Discriminant(a, b, c_adj) == b * b - 4 * a * c_adj

\* EarliestValid taking max(valid_solutions)
LatestValid(q, valid_solutions) ==
    CHOOSE s \in valid_solutions : \A t \in valid_solutions : RootLE(q, t, s)

\* min(valid_solutions)
EarliestValid(q, valid_solutions) ==
    CHOOSE s \in valid_solutions : \A t \in valid_solutions : RootLE(q, s, t)

\* quadratic branch: x1, x2 = (-b +- sqrt(disc)) / 2a; earliest one after current_day
SolveQuadratic(a, b, c_adj, current_day) ==
    LET discriminant == Discriminant(a, b, c_adj)
        q == [a |-> a, b |-> b, D |-> discriminant]
        valid_solutions == {s \in {1, -1} : RootGT(q, s, current_day)}
    IN  IF discriminant < 0 THEN None
        ELSE IF valid_solutions = {} THEN None
        ELSE LET x_solution == EarliestValid(q, valid_solutions)
             IN  \* days_from_now = x_solution - current_day > 0 here
                 Some(TruncRootMinus(q, x_solution, current_day))

\* c_adj = c - threshold
ShiftByThresholdSignSlip(c, threshold) == c + threshold

ShiftByThreshold(c, threshold) == c - threshold

solve_for_threshold(coeffs, threshold, current_day) ==
    LET a == coeffs[1]
        b == coeffs[2]
        c == coeffs[3]
        c_adj == ShiftByThreshold(c, threshold)
    IN  IF NearZero(a) THEN SolveLinear(b, c_adj, current_day)
        ELSE SolveQuadratic(a, b, c_adj, current_day)

\* ---------------------------------------------------------------- the solver called on its own
SolverCalls ==
    [coeffs : (-MaxCoef..MaxCoef) \X (-MaxCoef..MaxCoef) \X (0..MaxLevel),
     threshold : 0..MaxLevel,
     current_day : 0..MaxNow]

NoModel == [model_type |-> "", coeffs |-> <<0, 0, 0>>, r_squared |-> 0]
NoInputs == [model |-> NoModel, dedup_adjustment |-> FactorDen, capacityGB |-> 0,
             current_day |-> 0, sample_count |-> 0]
NoForecast == [made |-> FALSE]

\* the variables of the parts that are not running
NoCall == [coeffs |-> <<0, 0, 0>>, threshold |-> 0, current_day |-> 0]
NoUnit == [fn |-> "", done |-> FALSE]
NoRun == [pc |-> "off"]
Writers == {"w1", "w2"}
NoTxn == [w \in Writers |-> [pc |-> "idle"]]
PipelineIdle == inputs = NoInputs /\ forecast = NoForecast /\ fitted = NoModel
UnitIdle == unit = NoUnit
TablesIdle ==
    run = NoRun /\ store = {} /\ history = {} /\ txn = NoTxn /\ today = 1 /\ last = {}

SolverInit ==
    /\ pc = "call"
    /\ call \in SolverCalls
    /\ result = None
    /\ inputs = NoInputs
    /\ forecast = NoForecast
    /\ fitted = NoModel
    /\ UnitIdle
    /\ TablesIdle

SolveForThreshold ==
    /\ pc = "call"
    /\ result' = solve_for_threshold(call.coeffs, call.threshold, call.current_day)
    /\ pc' = "returned"
    /\ UNCHANGED <<call, inputs, forecast>>
    /\ UNCHANGED <<fitted, unit, tableVars>>

\* ---------------------------------------------------------------- analyze_repository
URGENT_THRESHOLD_DAYS == 15
HIGH_THRESHOLD_DAYS == 30
MEDIUM_THRESHOLD_DAYS == 60

\* configuration: r_squared thresholds in units of 1/Den, minimum sample count
R_SQUARED_HIGH == 85
R_SQUARED_MODERATE == 70
MIN_DAYS == 14
\* the literal 21 of "len(x) >= 21"
HighMinSamples == 21

\* coeffs = model['coeffs'].copy(); a and b times the dedup adjustment
AdjustCoeffs(coeffs, dedup_adjustment) ==
    IF dedup_adjustment # FactorDen
    THEN <<(coeffs[1] * dedup_adjustment) \div FactorDen,
           (coeffs[2] * dedup_adjustment) \div FactorDen,
           coeffs[3]>>
    ELSE coeffs

\* total_capacity_gb * 0.80, * 0.90, * 1.00
ThresholdAt(total_capacity_gb, pct) == (total_capacity_gb * pct) \div 100

\* (int(d * 0.9) if d else None, int(d * 1.1) if d else None)
ConfidenceInterval(days) ==
    <<IF Truthy(days) THEN Some((days.v * 9) \div 10) ELSE None,
      IF Truthy(days) THEN Some((days.v * 11) \div 10) ELSE None>>

\* GrowthPattern with |b| <= 1 counted as stable
GrowthPatternStableInclusive(growth_rate, acceleration, model_type) ==
    IF growth_rate < -Den THEN "DECLINING"
    ELSE IF Abs(growth_rate) <= Den THEN "STABLE"
    ELSE IF model_type = "QUADRATIC" /\ acceleration * 10 > Den THEN "QUADRATIC"
    ELSE "LINEAR"

GrowthPattern(growth_rate, acceleration, model_type) ==
    IF growth_rate < -Den THEN "DECLINING"
    ELSE IF Abs(growth_rate) < Den THEN "STABLE"
    ELSE IF model_type = "QUADRATIC" /\ acceleration * 10 > Den THEN "QUADRATIC"
    ELSE "LINEAR"

\* Priority with "days_to_80 is None or" in place of "days_to_80 and"
PriorityNoneIsSoonest(days_to_80) ==
    IF days_to_80.none \/ days_to_80.v < URGENT_THRESHOLD_DAYS THEN "URGENT"
    ELSE IF days_to_80.v < HIGH_THRESHOLD_DAYS THEN "HIGH"
    ELSE IF days_to_80.v < MEDIUM_THRESHOLD_DAYS THEN "MEDIUM"
    ELSE "LOW"

Priority(days_to_80) ==
    IF Truthy(days_to_80) /\ days_to_80.v < URGENT_THRESHOLD_DAYS THEN "URGENT"
    ELSE IF Truthy(days_to_80) /\ days_to_80.v < HIGH_THRESHOLD_DAYS THEN "HIGH"
    ELSE IF Truthy(days_to_80) /\ days_to_80.v < MEDIUM_THRESHOLD_DAYS THEN "MEDIUM"
    ELSE "LOW"

\* the recommendation text: its form, the label it opens with, the day count it
\* prints (None prints as N/A) and, for the declining form, the rate it prints
Recommendation(growth_pattern, growth_rate, days_to_80) ==
    IF growth_pattern = "DECLINING"
    THEN [form |-> "declining", label |-> "", days |-> None, rate |-> Abs(growth_rate)]
    ELSE IF Truthy(days_to_80) /\ days_to_80.v < URGENT_THRESHOLD_DAYS
    THEN [form |-> "order", label |-> "URGENT", days |-> days_to_80, rate |-> 0]
    ELSE IF Truthy(days_to_80) /\ days_to_80.v < HIGH_THRESHOLD_DAYS
    THEN [form |-> "order", label |-> "HIGH", days |-> days_to_80, rate |-> 0]
    ELSE IF Truthy(days_to_80) /\ days_to_80.v < MEDIUM_THRESHOLD_DAYS
    THEN [form |-> "plan", label |-> "MEDIUM", days |-> days_to_80, rate |-> 0]
    ELSE [form |-> "monitor", label |-> "LOW",
          days |-> IF Truthy(days_to_80) THEN days_to_80 ELSE None, rate |-> 0]

\* total_capacity_gb + (growth_rate * 180) * 1.2, in units of 1/Den GB
RecommendedCapacity(days_to_100, total_capacity_gb, growth_rate) ==
    IF Truthy(days_to_100)
    THEN Some(total_capacity_gb + (growth_rate * 180 * 12) \div 10)
    ELSE None

\* confidence_level and confidence_multiplier (in 1/FactorDen) with "len(x) > 21"
ConfidenceStrictlyMoreSamples(r_squared, n) ==
    IF r_squared >= R_SQUARED_HIGH /\ n > HighMinSamples THEN <<"HIGH", FactorDen>>
    ELSE IF r_squared >= R_SQUARED_MODERATE /\ n >= MIN_DAYS THEN <<"MODERATE", 8>>
    ELSE <<"LOW", 5>>

\* confidence_level and confidence_multiplier (in 1/FactorDen); n is len(x)
Confidence(r_squared, n) ==
    IF r_squared >= R_SQUARED_HIGH /\ n >= HighMinSamples THEN <<"HIGH", FactorDen>>
    ELSE IF r_squared >= R_SQUARED_MODERATE /\ n >= MIN_DAYS THEN <<"MODERATE", 8>>
    ELSE <<"LOW", 5>>

\* the dict fit_model returned after the coefficients were adjusted on a copy
ModelAdjustedInPlace(model, dedup_adjustment) ==
    [model EXCEPT !.coeffs = AdjustCoeffs(model.coeffs, dedup_adjustment)]

ModelAfterAdjust(model, dedup_adjustment) == model

\* the forecast assembled from the fitted model, the dedup adjustment, the live
\* snapshot of the repository, the day index of the last sample and len(x)
Assemble(model, dedup_adjustment, capacityGB, current_day, n) ==
    LET coeffs == AdjustCoeffs(model.coeffs, dedup_adjustment)
        total_capacity_gb == capacityGB * Den
        days_to_80 == solve_for_threshold(coeffs, ThresholdAt(total_capacity_gb, 80), current_day)
        days_to_90 == solve_for_threshold(coeffs, ThresholdAt(total_capacity_gb, 90), current_day)
        days_to_100 == solve_for_threshold(coeffs, ThresholdAt(total_capacity_gb, 100), current_day)
        growth_rate == coeffs[2]
        acceleration == coeffs[1]
        growth_pattern == GrowthPattern(growth_rate, acceleration, model.model_type)
    IN  [made |-> TRUE,
         total_capacity_gb |-> total_capacity_gb,
         days_to_80 |-> days_to_80,
         days_to_90 |-> days_to_90,
         days_to_100 |-> days_to_100,
         days_to_80_ci |-> ConfidenceInterval(days_to_80),
         days_to_100_ci |-> ConfidenceInterval(days_to_100),
         growth_rate |-> growth_rate,
         acceleration |-> acceleration,
         growth_pattern |-> growth_pattern,
         model_type |-> model.model_type,
         r_squared |-> model.r_squared,
         sample_count |-> n,
         confidence_level |-> Confidence(model.r_squared, n)[1],
         confidence_multiplier |-> Confidence(model.r_squared, n)[2],
         dedup_adjustment_applied |-> (dedup_adjustment # FactorDen),
         priority |-> Priority(days_to_80),
         recommendation |-> Recommendation(growth_pattern, growth_rate, days_to_80),
         recommended_capacity_gb |-> RecommendedCapacity(days_to_100, total_capacity_gb, growth_rate)]

\* what fit_model can return: the quadratic fit when its a is significant,
\* else the linear fit as (0, slope, intercept)
Slopes == {FactorDen * k : k \in -MaxB..MaxB}
Intercepts == {5 * Den * k : k \in 0..MaxC}
\* quadratic fits that turn after the last sample: s * 0.1 * (x - v)^2 + p, with
\* the turn v days in and p GB at the turn
CurvedModels ==
    {[model_type |-> "QUADRATIC",
      coeffs |-> <<sgn * FactorDen, -2 * sgn * FactorDen * v, p * Den + sgn * FactorDen * v * v>>] :
        sgn \in {-1, 1}, v \in {MaxDay + 2, MaxDay + 12, MaxDay + 15}, p \in {70, 85, 95}}
FittedModels ==
    {[model_type |-> "QUADRATIC", coeffs |-> <<FactorDen * k, b, c>>] :
        k \in (-MaxA..MaxA) \ {0}, b \in Slopes, c \in Intercepts}
    \cup
    {[model_type |-> "LINEAR", coeffs |-> <<0, b, c>>] : b \in Slopes, c \in Intercepts}
    \cup CurvedModels

\* the same with the r_squared fit_model reports, and the number of samples
\* that reached the fit
FitResults ==
    {[model_type |-> m.model_type, coeffs |-> m.coeffs, r_squared |-> r] :
        m \in FittedModels, r \in {R_SQUARED_MODERATE, R_SQUARED_HIGH}}
SampleCounts == {HighMinSamples - 1, HighMinSamples}

AnalyzeInit ==
    /\ pc = "idle"
    /\ call = [coeffs |-> <<0, 0, 0>>, threshold |-> 0, current_day |-> 0]
    /\ result = None
    /\ inputs = NoInputs
    /\ forecast = NoForecast
    /\ fitted = NoModel
    /\ UnitIdle
    /\ TablesIdle

analyze_repository ==
    /\ pc = "idle"
    /\ \E model \in FitResults,
          dedup_adjustment \in (FactorDen - MaxAdj)..(FactorDen + MaxAdj),
          capacityGB \in {0, MaxCap},
          current_day \in (MaxDay - 1)..MaxDay,
          n \in SampleCounts :
          /\ inputs' = [model |-> model, dedup_adjustment |-> dedup_adjustment,
                        capacityGB |-> capacityGB, current_day |-> current_day,
                        sample_count |-> n]
          /\ fitted' = ModelAfterAdjust(model, dedup_adjustment)
          /\ forecast' = Assemble(model, dedup_adjustment, capacityGB, current_day, n)
    /\ pc' = "analyzed"
    /\ UNCHANGED <<call, result>>
    /\ UNCHANGED <<unit, tableVars>>

\* ---------------------------------------------------------------- the confidence classification on its own
RSquaredGrid ==
    {0, R_SQUARED_MODERATE - 1, R_SQUARED_MODERATE, R_SQUARED_MODERATE + 1,
     R_SQUARED_HIGH - 1, R_SQUARED_HIGH, R_SQUARED_HIGH + 1, Den}

ConfidenceInit ==
    /\ pc = "unit"
    /\ \E r \in RSquaredGrid, n \in (MIN_DAYS - 1)..(HighMinSamples + 1) :
          unit = [fn |-> "confidence", done |-> FALSE, r_squared |-> r, n |-> n,
                  level |-> "", multiplier |-> 0]
    /\ call = NoCall
    /\ result = None
    /\ PipelineIdle
    /\ TablesIdle

ClassifyConfidence ==
    /\ pc = "unit"
    /\ unit.fn = "confidence"
    /\ ~unit.done
    /\ unit' = [unit EXCEPT !.done = TRUE,
                            !.level = Confidence(unit.r_squared, unit.n)[1],
                            !.multiplier = Confidence(unit.r_squared, unit.n)[2]]
    /\ UNCHANGED <<pc, solverVars, pipelineVars, tableVars>>

\* ---------------------------------------------------------------- fit_model on its own
\* p_value is a count of 1/PDen; P_VALUE_THRESHOLD is the configured 0.05
PDen == Den * FactorDen
P_VALUE_THRESHOLD == 50

\* se_a = sqrt(mse * XtX_inv[0, 0]) > 0: the diagonal of the inverse of a
\* non-singular X'X is positive, so se_a > 0 exactly when mse > 0, that is when
\* the quadratic fit leaves a residual and n > 3
StandardErrorPositive(ss_res_quad, n) == n > 3 /\ ss_res_quad > 0

\* the significance test with no else branch for se_a = 0
PValueIgnoresZeroStandardError(singular, ss_res_quad, n, p_t) ==
    IF singular THEN PDen ELSE p_t

\* try: inv(X.T @ X); p_value = 2 * t.sf(...) if se_a > 0 else 1.0; except: 1.0
\* p_t is what 2 * stats.t.sf(abs(a / se_a), df = n - 3) returns
PValue(singular, ss_res_quad, n, p_t) ==
    IF singular THEN PDen
    ELSE IF StandardErrorPositive(ss_res_quad, n) THEN p_t
    ELSE PDen

\* model selection with "p_value <= P_VALUE_THRESHOLD"
SelectModelAtThreshold(p_value, coeffs_quad, coeffs_linear) ==
    IF p_value <= P_VALUE_THRESHOLD
    THEN [model_type |-> "QUADRATIC", coeffs |-> coeffs_quad]
    ELSE [model_type |-> "LINEAR", coeffs |-> <<0, coeffs_linear[1], coeffs_linear[2]>>]

\* if p_value < P_VALUE_THRESHOLD: QUADRATIC, coeffs_quad
\* else: LINEAR, np.array([0.0, coeffs_linear[0], coeffs_linear[1]])
SelectModel(p_value, coeffs_quad, coeffs_linear) ==
    IF p_value < P_VALUE_THRESHOLD
    THEN [model_type |-> "QUADRATIC", coeffs |-> coeffs_quad]
    ELSE [model_type |-> "LINEAR", coeffs |-> <<0, coeffs_linear[1], coeffs_linear[2]>>]

\* r_squared with the two sums of squares exchanged
RSquaredInverted(ss_res, ss_tot) ==
    IF ss_res > 0 THEN Den - (ss_tot * Den) \div ss_res ELSE 0

\* r_squared = 1 - (ss_res / ss_tot) if ss_tot > 0 else 0.0, in units of 1/Den
RSquared(ss_res, ss_tot) ==
    IF ss_tot > 0 THEN Den - (ss_res * Den) \div ss_tot ELSE 0

\* fit_model from what numpy and scipy hand back: the two polyfit results,
\* whether inv raises, the residual sums of squares of the two fits and of the
\* mean, and the p-value of the t test
fit_model(args) ==
    LET p_value == PValue(args.singular, args.ss_res_quad, args.n, args.p_t)
        selected == SelectModel(p_value, args.coeffs_quad, args.coeffs_linear)
        ss_res == IF selected.model_type = "QUADRATIC" THEN args.ss_res_quad
                  ELSE args.ss_res_lin
    IN  [coeffs |-> selected.coeffs,
         model_type |-> selected.model_type,
         r_squared |-> RSquared(ss_res, args.ss_tot),
         p_value |-> p_value]

\* sums of squares: 0, or a total of 20 with 0, 3, 6 or 20 of it left by a fit
SSTotal == 4 * 5
SSLevels == {0, 3, 6, SSTotal}
PValues == {0, P_VALUE_THRESHOLD - 1, P_VALUE_THRESHOLD, P_VALUE_THRESHOLD + 1, PDen}

\* least squares on n samples of distinct days: X'X is singular exactly when
\* n < 3, and then both fits pass through the samples; the quadratic fit leaves
\* no more than the linear fit, which leaves no more than the mean; a = 0
\* exactly when the two fits coincide, slope = 0 exactly when the linear fit is
\* the mean; a = 0 gives t = 0 and p = 1, a # 0 gives p < 1
FitCalls ==
    {args \in [n : {2, HighMinSamples - 1, HighMinSamples},
               coeffs_quad : {-FactorDen, 0, FactorDen} \X {0, FactorDen} \X {0, 5 * Den},
               coeffs_linear : {0, FactorDen} \X {0, 5 * Den},
               singular : BOOLEAN,
               ss_res_quad : SSLevels, ss_res_lin : SSLevels, ss_tot : {0, SSTotal},
               p_t : PValues] :
        /\ args.singular <=> args.n < 3
        /\ args.ss_res_quad <= args.ss_res_lin /\ args.ss_res_lin <= args.ss_tot
        /\ args.singular => (args.ss_res_lin = 0 /\ args.p_t = PDen)
        /\ ~args.singular =>
              /\ (args.coeffs_quad[1] = 0) <=> (args.ss_res_quad = args.ss_res_lin)
              /\ (args.coeffs_quad[1] = 0) =>
                    (args.coeffs_quad[2] = args.coeffs_linear[1]
                       /\ args.coeffs_quad[3] = args.coeffs_linear[2])
              /\ (args.coeffs_quad[1] = 0) <=> (args.p_t = PDen)
        /\ (args.coeffs_linear[1] = 0) <=> (args.ss_res_lin = args.ss_tot)}

NoFit == [coeffs |-> <<0, 0, 0>>, model_type |-> "", r_squared |-> 0, p_value |-> 0]

FitInit ==
    /\ pc = "unit"
    /\ \E args \in FitCalls :
          unit = [fn |-> "fit_model", done |-> FALSE, args |-> args,
                  model |-> NoFit, level |-> ""]
    /\ call = NoCall
    /\ result = None
    /\ PipelineIdle
    /\ TablesIdle

\* model = fit_model(x, y), then the confidence level analyze_repository
\* derives from it
FitModel ==
    /\ pc = "unit"
    /\ unit.fn = "fit_model"
    /\ ~unit.done
    /\ LET model == fit_model(unit.args)
       IN  unit' = [unit EXCEPT !.done = TRUE,
                                !.model = model,
                                !.level = Confidence(model.r_squared, unit.args.n)[1]]
    /\ UNCHANGED <<pc, solverVars, pipelineVars, tableVars>>

\* ---------------------------------------------------------------- analyze_dedup_trend on its own
\* ratios, their means and the two thresholds are counts of 1/FactorDen;
\* configuration: thresholds +0.1 and -0.1, factors 1.0 -+ MaxAdj/10
DEDUP_IMPROVING_THRESHOLD == 1
DEDUP_DEGRADING_THRESHOLD == -1
DEDUP_IMPROVING_ADJUSTMENT == FactorDen - MaxAdj
DEDUP_DEGRADING_ADJUSTMENT == FactorDen + MaxAdj
\* the literal 10 of "len(dedup_ratios) < 10"
DedupMinObservations == 10

RECURSIVE SumSeq(_)
SumSeq(seq) == IF seq = <<>> THEN 0 ELSE Head(seq) + SumSeq(Tail(seq))

\* the classification with ">=" and "<=" in place of ">" and "<"
TrendInclusive(first_half, second_half) ==
    LET scale == Len(first_half) * Len(second_half)
        diff == SumSeq(second_half) * Len(first_half) - SumSeq(first_half) * Len(second_half)
    IN  IF diff >= DEDUP_IMPROVING_THRESHOLD * scale
        THEN <<"IMPROVING", DEDUP_IMPROVING_ADJUSTMENT>>
        ELSE IF diff <= DEDUP_DEGRADING_THRESHOLD * scale
        THEN <<"DEGRADING", DEDUP_DEGRADING_ADJUSTMENT>>
        ELSE <<"STABLE", FactorDen>>

\* diff = mean(second_half) - mean(first_half) against the two thresholds, both
\* sides multiplied by the two lengths
Trend(first_half, second_half) ==
    LET scale == Len(first_half) * Len(second_half)
        diff == SumSeq(second_half) * Len(first_half) - SumSeq(first_half) * Len(second_half)
    IN  IF diff > DEDUP_IMPROVING_THRESHOLD * scale
        THEN <<"IMPROVING", DEDUP_IMPROVING_ADJUSTMENT>>
        ELSE IF diff < DEDUP_DEGRADING_THRESHOLD * scale
        THEN <<"DEGRADING", DEDUP_DEGRADING_ADJUSTMENT>>
        ELSE <<"STABLE", FactorDen>>

analyze_dedup_trend(dedup_ratios) ==
    IF Len(dedup_ratios) < DedupMinObservations THEN <<"UNKNOWN", FactorDen>>
    ELSE LET mid == Len(dedup_ratios) \div 2
         IN  Trend(SubSeq(dedup_ratios, 1, mid),
                   SubSeq(dedup_ratios, mid + 1, Len(dedup_ratios)))

\* analyze_repository: the analyzer is called for 10 ratios or more
DedupOfRepository(dedup_ratios) ==
    IF Len(dedup_ratios) >= DedupMinObservations THEN analyze_dedup_trend(dedup_ratios)
    ELSE <<"UNKNOWN", FactorDen>>

RatioValues == {FactorDen + 5 * k : k \in 0..MaxRatioStep}
RatioSeries ==
    UNION {[1..n -> RatioValues] :
             n \in (DedupMinObservations - 1)..(DedupMinObservations + 1)}

DedupInit ==
    /\ pc = "unit"
    /\ \E ratios \in RatioSeries :
          unit = [fn |-> "analyze_dedup_trend", done |-> FALSE, dedup_ratios |-> ratios,
                  dedup_trend |-> "", dedup_adjustment |-> 0,
                  dedup_adjustment_applied |-> FALSE]
    /\ call = NoCall
    /\ result = None
    /\ PipelineIdle
    /\ TablesIdle

\* the dedup step of analyze_repository, and the flag the adjustment sets
AnalyzeDedupTrend ==
    /\ pc = "unit"
    /\ unit.fn = "analyze_dedup_trend"
    /\ ~unit.done
    /\ LET r == DedupOfRepository(unit.dedup_ratios)
       IN  unit' = [unit EXCEPT !.done = TRUE,
                                !.dedup_trend = r[1],
                                !.dedup_adjustment = r[2],
                                !.dedup_adjustment_applied = (r[2] # FactorDen)]
    /\ UNCHANGED <<pc, solverVars, pipelineVars, tableVars>>

\* ---------------------------------------------------------------- interpolate_gaps on its own
\* The series is the column capacity_gb on the daily grid df.resample('D')
\* .asfreq() makes of samples taken on whole days: one entry per calendar day
\* from the first sample to the last, None (NaN) on a day without a sample.
\* Observed values are multiples of Fine, so that every value on a line between
\* two of them is a whole number of units.
RECURSIVE Gcd(_, _)
Gcd(m, n) == IF n = 0 THEN m ELSE Gcd(n, m % n)
RECURSIVE LcmUpTo(_)
LcmUpTo(n) == IF n <= 1 THEN 1 ELSE (LcmUpTo(n - 1) * n) \div Gcd(LcmUpTo(n - 1), n)
Fine == LcmUpTo(MaxSeriesLen - 1)

\* the nearest observed day before and after day i
PrevObserved(series, i) ==
    CHOOSE j \in 1..(i - 1) :
        ~series[j].none /\ \A k \in (j + 1)..(i - 1) : series[k].none
NextObserved(series, i) ==
    CHOOSE j \in (i + 1)..Len(series) :
        ~series[j].none /\ \A k \in (i + 1)..(j - 1) : series[k].none

\* filling with the previous observed value instead of the line
PreviousValue(series, i) == series[PrevObserved(series, i)].v

\* method='linear': the value at i on the line through the two observed
\* neighbours
LineValue(series, i) ==
    LET p == PrevObserved(series, i)
        q == NextObserved(series, i)
    IN  series[p].v + ((series[q].v - series[p].v) * (i - p)) \div (q - p)

\* limit=max_gap_days, limit_direction='both': a NaN is filled when it is no
\* more than limit entries after an observed one or before an observed one
WithinLimit(series, i, limit) ==
    \/ i - PrevObserved(series, i) <= limit
    \/ NextObserved(series, i) - i <= limit

\* the column capacity_gb after interpolate(...)
Interpolate(series, max_gap_days) ==
    [i \in 1..Len(series) |->
        IF ~series[i].none THEN series[i]
        ELSE IF WithinLimit(series, i, max_gap_days) THEN Some(LineValue(series, i))
        ELSE None]

\* isna().sum()
CountMissing(series) == Cardinality({i \in 1..Len(series) : series[i].none})

\* df.dropna(subset=['capacity_gb']): the rows left, each with its day
RECURSIVE DropNa(_, _)
DropNa(series, i) ==
    IF i > Len(series) THEN <<>>
    ELSE IF series[i].none THEN DropNa(series, i + 1)
    ELSE <<[day |-> i - 1, capacity_gb |-> series[i].v]>> \o DropNa(series, i + 1)

\* interpolate_gaps: the daily series and interpolated_count
interpolate_gaps(series, max_gap_days) ==
    LET filled == Interpolate(series, max_gap_days)
    IN  [df_daily |-> filled,
         interpolated_count |-> CountMissing(series) - CountMissing(filled)]

DailyValues == {None, Some(Fine), Some(3 * Fine)}
DailySeries ==
    {series \in [1..MaxSeriesLen -> DailyValues] :
        ~series[1].none /\ ~series[MaxSeriesLen].none}

GapsInit ==
    /\ pc = "unit"
    /\ \E series \in DailySeries, max_gap_days \in 1..MaxGapDays :
          unit = [fn |-> "interpolate_gaps", done |-> FALSE, series |-> series,
                  max_gap_days |-> max_gap_days, df_daily |-> <<>>,
                  interpolated_count |-> 0, df |-> <<>>]
    /\ call = NoCall
    /\ result = None
    /\ PipelineIdle
    /\ TablesIdle

\* df, gaps_interpolated = interpolate_gaps(df, MAX_GAP_DAYS); df = df.dropna(...)
InterpolateGaps ==
    /\ pc = "unit"
    /\ unit.fn = "interpolate_gaps"
    /\ ~unit.done
    /\ LET r == interpolate_gaps(unit.series, unit.max_gap_days)
       IN  unit' = [unit EXCEPT !.done = TRUE,
                                !.df_daily = r.df_daily,
                                !.interpolated_count = r.interpolated_count,
                                !.df = DropNa(r.df_daily, 1)]
    /\ UNCHANGED <<pc, solverVars, pipelineVars, tableVars>>

\* ---------------------------------------------------------------- remove_outliers on its own
\* values are whole GB; OUTLIER_THRESHOLD is the configured 3.0 in 1/FactorDen.
\* With n values of sum S and sum of squares Q, mean = S/n and std^2 =
\* (n*Q - S*S)/n^2 (np.std, population), so |v - mean| > threshold * std is
\* (n*v - S)^2 * FactorDen^2 > threshold^2 * (n*Q - S*S), both sides whole.
OUTLIER_THRESHOLD == 30

RECURSIVE SumSquares(_)
SumSquares(seq) == IF seq = <<>> THEN 0 ELSE Head(seq) * Head(seq) + SumSquares(Tail(seq))

\* Deviations from the mean and the std do not change when the same number is
\* taken off every value: the sums are taken over data - data[0], and the two
\* sides are divided by the common factor of FactorDen^2 and threshold^2, which
\* keeps them small.
FromFirst(data) == [k \in 1..Len(data) |-> data[k] - data[1]]

\* n^2 * std^2
ScaledVariance(data) ==
    Len(data) * SumSquares(FromFirst(data)) - SumSeq(FromFirst(data)) * SumSeq(FromFirst(data))
\* (n * (data[i] - mean))^2
ScaledDeviation(data, i) ==
    (Len(data) * FromFirst(data)[i] - SumSeq(FromFirst(data)))
        * (Len(data) * FromFirst(data)[i] - SumSeq(FromFirst(data)))

UnitSquared(threshold) == (FactorDen * FactorDen) \div Gcd(FactorDen * FactorDen, threshold * threshold)
ThresholdSquared(threshold) == (threshold * threshold) \div Gcd(FactorDen * FactorDen, threshold * threshold)

\* np.abs(data - mean) > threshold * std, at position i
Beyond(data, i, threshold) ==
    ScaledDeviation(data, i) * UnitSquared(threshold)
        > ThresholdSquared(threshold) * ScaledVariance(data)

\* the second mask with "<" in place of "<="
WithinStrictly(data, i, threshold) ==
    ScaledDeviation(data, i) * UnitSquared(threshold)
        < ThresholdSquared(threshold) * ScaledVariance(data)

\* np.abs(y - np.mean(y)) <= OUTLIER_THRESHOLD * np.std(y), at position i
Within(data, i, threshold) ==
    ScaledDeviation(data, i) * UnitSquared(threshold)
        <= ThresholdSquared(threshold) * ScaledVariance(data)

\* seq[mask]: the entries of seq at the positions in mask, in order
RECURSIVE Masked(_, _, _)
Masked(seq, mask, i) ==
    IF i > Len(seq) THEN <<>>
    ELSE IF i \in mask THEN <<seq[i]>> \o Masked(seq, mask, i + 1)
    ELSE Masked(seq, mask, i + 1)

\* remove_outliers that removes the points at the bound as well
RemoveOutliersAtBound(data, threshold) ==
    IF Len(data) < 3 THEN [data |-> data, count |-> 0]
    ELSE IF ScaledVariance(data) = 0 THEN [data |-> data, count |-> 0]
    ELSE LET outliers == {i \in 1..Len(data) : ~WithinStrictly(data, i, threshold)}
         IN  IF Cardinality(outliers) > 0
             THEN [data |-> Masked(data, (1..Len(data)) \ outliers, 1),
                   count |-> Cardinality(outliers)]
             ELSE [data |-> data, count |-> 0]

remove_outliers(data, threshold) ==
    IF Len(data) < 3 THEN [data |-> data, count |-> 0]
    ELSE IF ScaledVariance(data) = 0 THEN [data |-> data, count |-> 0]
    ELSE LET outliers == {i \in 1..Len(data) : Beyond(data, i, threshold)}
         IN  IF Cardinality(outliers) > 0
             THEN [data |-> Masked(data, (1..Len(data)) \ outliers, 1),
                   count |-> Cardinality(outliers)]
             ELSE [data |-> data, count |-> 0]

\* the outlier step with x cut to the length of y_clean instead of masked
CleanForFitTruncatesX(x, y) ==
    LET r == remove_outliers(y, OUTLIER_THRESHOLD)
        x_fit == IF r.count > 0 THEN SubSeq(x, 1, Len(r.data)) ELSE x
        y_fit == IF r.count > 0 THEN r.data ELSE y
    IN  [x |-> x_fit, y |-> y_fit, outliers_removed |-> r.count,
         current_day |-> x_fit[Len(x_fit)]]

\* analyze_repository: y_clean, outliers_removed = remove_outliers(y, ...); when
\* outliers were removed, x = x[outlier_mask] with the mask computed again, and
\* y = y_clean; current_day = x[-1]
CleanForFit(x, y) ==
    LET r == remove_outliers(y, OUTLIER_THRESHOLD)
        outlier_mask == {i \in 1..Len(y) : Within(y, i, OUTLIER_THRESHOLD)}
        x_fit == IF r.count > 0 THEN Masked(x, outlier_mask, 1) ELSE x
        y_fit == IF r.count > 0 THEN r.data ELSE y
    IN  [x |-> x_fit, y |-> y_fit, outliers_removed |-> r.count,
         current_day |-> x_fit[Len(x_fit)]]

\* a level series of n values with up to two of them moved, to one GB above the
\* level or to the far value
OutlierLevel == MaxSpike \div 4
OutlierLens == {2, 3, 10, 11, 30}
OutlierValues == {OutlierLevel, OutlierLevel + 1, MaxSpike}
OutlierSeriesOfLen(n) ==
    {[k \in 1..n |-> IF k = i THEN vi ELSE IF k = j THEN vj ELSE OutlierLevel] :
        i \in 1..n, j \in 1..n, vi \in OutlierValues, vj \in OutlierValues}
OutlierSeries == UNION {OutlierSeriesOfLen(n) : n \in OutlierLens}

OutliersInit ==
    /\ pc = "unit"
    /\ \E y \in OutlierSeries :
          unit = [fn |-> "remove_outliers", done |-> FALSE,
                  x |-> [k \in 1..Len(y) |-> k - 1], y |-> y,
                  y_clean |-> <<>>, outliers_removed |-> 0,
                  x_fit |-> <<>>, y_fit |-> <<>>, current_day |-> 0]
    /\ call = NoCall
    /\ result = None
    /\ PipelineIdle
    /\ TablesIdle

\* the outlier step of analyze_repository
RemoveOutliers ==
    /\ pc = "unit"
    /\ unit.fn = "remove_outliers"
    /\ ~unit.done
    /\ LET r == remove_outliers(unit.y, OUTLIER_THRESHOLD)
           c == CleanForFit(unit.x, unit.y)
       IN  unit' = [unit EXCEPT !.done = TRUE,
                                !.y_clean = r.data,
                                !.outliers_removed = r.count,
                                !.x_fit = c.x,
                                !.y_fit = c.y,
                                !.current_day = c.current_day]
    /\ UNCHANGED <<pc, solverVars, pipelineVars, tableVars>>

\* ---------------------------------------------------------------- analyze_repository on a series
\* the samples are whole GB on consecutive days and lie on a line, for which
\* the least-squares fits are known without numpy: np.polyfit(x, y, 1) is the
\* line itself and, the days being distinct, np.polyfit(x, y, 2) is the same
\* line with a = 0.
RECURSIVE SumProducts(_, _)
SumProducts(x, y) ==
    IF x = <<>> THEN 0 ELSE Head(x) * Head(y) + SumProducts(Tail(x), Tail(y))

\* np.polyfit(x, y, deg=1) as (slope, intercept) in 1/Den GB; a level series
\* and a series of one day have slope 0
PolyfitLinear(x, y) ==
    LET n == Len(x)
        sxx == n * SumSquares(x) - SumSeq(x) * SumSeq(x)
        sxy == n * SumProducts(x, y) - SumSeq(x) * SumSeq(y)
        slope == IF sxx = 0 THEN 0 ELSE (sxy * Den) \div sxx
    IN  <<slope, (SumSeq(y) * Den - slope * SumSeq(x)) \div n>>

\* np.sum((y - np.polyval(coeffs, x))**2) for a line, in GB^2
RECURSIVE ResidualSquares(_, _, _)
ResidualSquares(x, y, line) ==
    IF x = <<>> THEN 0
    ELSE LET r == Head(y) * Den - line[1] * Head(x) - line[2]
         IN  (r * r) \div (Den * Den) + ResidualSquares(Tail(x), Tail(y), line)

\* what fit_model computes from x and y before the model selection
FitOfLine(x, y) ==
    LET line == PolyfitLinear(x, y)
        ss_res == ResidualSquares(x, y, line)
    IN  [n |-> Len(x),
         coeffs_quad |-> <<0, line[1], line[2]>>,
         coeffs_linear |-> line,
         singular |-> Len(x) < 3,
         ss_res_quad |-> ss_res,
         ss_res_lin |-> ss_res,
         ss_tot |-> ScaledVariance(y) \div Len(y),
         p_t |-> PDen]

NoSeriesForecast == [returned |-> FALSE, none |-> TRUE]

\* the analysis with the day counts measured from len(x)
AnalyzeSeriesFromLength(y, dedup_ratios, capacityGB) ==
    IF Len(y) - 1 < MIN_DAYS \/ Len(y) < MIN_DAYS
    THEN [returned |-> TRUE, none |-> TRUE]
    ELSE LET c == CleanForFit([k \in 1..Len(y) |-> k - 1], y)
             dedup == DedupOfRepository(dedup_ratios)
             model == fit_model(FitOfLine(c.x, c.y))
         IN  [returned |-> TRUE, none |-> FALSE,
              dedup_trend |-> dedup[1],
              outliers_removed |-> c.outliers_removed,
              forecast |-> Assemble(model, dedup[2], capacityGB, Len(c.x), Len(c.x))]

\* analyze_repository from the series after get_historical_data, the appended
\* current row and interpolate_gaps: the last sample is the current row
AnalyzeSeries(y, dedup_ratios, capacityGB) ==
    IF Len(y) - 1 < MIN_DAYS \/ Len(y) < MIN_DAYS
    THEN [returned |-> TRUE, none |-> TRUE]
    ELSE LET c == CleanForFit([k \in 1..Len(y) |-> k - 1], y)
             dedup == DedupOfRepository(dedup_ratios)
             model == fit_model(FitOfLine(c.x, c.y))
         IN  [returned |-> TRUE, none |-> FALSE,
              dedup_trend |-> dedup[1],
              outliers_removed |-> c.outliers_removed,
              forecast |-> Assemble(model, dedup[2], capacityGB, c.current_day, Len(c.x))]

\* series of n daily samples growing g GB a day and ending at final GB
SeriesLens == {MIN_DAYS, MIN_DAYS + 1, 60}
SeriesLasts == {700, 790}
SeriesCapacities == {1000, 2000}
LineSeries ==
    UNION {{[k \in 1..n |-> final - g * (n - k)] : g \in 0..MaxGrowth, final \in SeriesLasts} :
             n \in SeriesLens}

SeriesInit ==
    /\ pc = "unit"
    /\ \E y \in LineSeries, capacityGB \in SeriesCapacities,
          ratios \in {<<>>, [k \in 1..DedupMinObservations |-> FactorDen]} :
          unit = [fn |-> "analyze_repository", done |-> FALSE,
                  y |-> y, dedup_ratios |-> ratios, capacityGB |-> capacityGB,
                  out |-> NoSeriesForecast]
    /\ call = NoCall
    /\ result = None
    /\ PipelineIdle
    /\ TablesIdle

AnalyzeLineSeries ==
    /\ pc = "unit"
    /\ unit.fn = "analyze_repository"
    /\ ~unit.done
    /\ unit' = [unit EXCEPT !.done = TRUE,
                            !.out = AnalyzeSeries(unit.y, unit.dedup_ratios, unit.capacityGB)]
    /\ UNCHANGED <<pc, solverVars, pipelineVars, tableVars>>

\* ---------------------------------------------------------------- ransomware pipeline
\* detect_ransomware (feature 7), ContextScorer.apply_context_scoring behind
\* analyze_ransomware_context (feature 8) and TimelineBuilder.build_timeline
\* behind analyze_attack_timeline (feature 9), each from what the connector and
\* the input validation hand back. The key guardrail_skip_downstream of a
\* result is "true", "false" or "absent".
DetectionThreshold == 70
MinConfidenceToProcess == 70
WeightTier1 == 20
WeightTier2 == 10
WeightHighImpactRole == 15
WeightOffHours == 15
WeightUnpatched == 10

FileRateScore(file_count) ==
    IF file_count > 1000 THEN 25 ELSE IF file_count > 500 THEN 10 ELSE 0
EncryptedScore(encrypted_files) ==
    IF encrypted_files > 50 THEN 20 ELSE IF encrypted_files > 0 THEN 10 ELSE 0
EntropyScore(high_entropy) ==
    IF high_entropy > 50 THEN 30 ELSE IF high_entropy > 10 THEN 15 ELSE 0
Flag(b, points) == IF b THEN points ELSE 0
Least(a, b) == IF a < b THEN a ELSE b

DetectionError == [status |-> "error", detected |-> FALSE, confidence |-> 0,
                   guardrail_skip_downstream |-> "absent"]

detect_ransomware(in) ==
    IF ~in.authenticated \/ ~in.agent_found THEN DetectionError
    ELSE LET score == FileRateScore(in.file_count)
                        + EncryptedScore(in.encrypted_files)
                        + EntropyScore(in.high_entropy)
                        + Flag(in.suspicious_procs, 20)
                        + Flag(in.shadow_deletion, 10)
                        + Flag(in.defender_stopped, 10)
             final_score == Least(score, 100)
             detected == final_score >= DetectionThreshold
         IN  [status |-> "success", detected |-> detected, confidence |-> final_score,
              guardrail_skip_downstream |-> IF ~detected THEN "true" ELSE "absent"]

ScoringError == [status |-> "error", adjusted_confidence |-> 0, context_factors |-> {},
                 guardrail_skip_downstream |-> "absent"]

\* the context scorer skipping only what is both undetected and below the minimum
ScoringSkipsOnBoth(in) ==
    IF ~in.valid THEN ScoringError
    ELSE IF ~in.detected /\ in.raw_confidence < MinConfidenceToProcess
    THEN [status |-> "success", adjusted_confidence |-> in.raw_confidence,
          context_factors |-> {}, guardrail_skip_downstream |-> "true"]
    ELSE LET factors ==
                 (IF in.tier \in {1, 2} THEN {"tier"} ELSE {})
                 \cup (IF in.high_impact_role THEN {"role"} ELSE {})
                 \cup (IF in.local_time = "off_hours" THEN {"off_hours"} ELSE {})
                 \cup (IF in.patch_status = "unpatched" THEN {"unpatched"} ELSE {})
             score == in.raw_confidence
                        + (IF in.tier = 1 THEN WeightTier1
                           ELSE IF in.tier = 2 THEN WeightTier2 ELSE 0)
                        + Flag(in.high_impact_role, WeightHighImpactRole)
                        + Flag(in.local_time = "off_hours", WeightOffHours)
                        + Flag(in.patch_status = "unpatched", WeightUnpatched)
         IN  [status |-> "success", adjusted_confidence |-> Least(100, score),
              context_factors |-> factors, guardrail_skip_downstream |-> "false"]

\* local_time is "business_hours", "off_hours" or "raised" (the time zone or the
\* timestamp could not be read); patch_status is "patched", "unpatched" or
\* "raised"
apply_context_scoring(in) ==
    IF ~in.valid THEN ScoringError
    ELSE IF ~in.detected \/ in.raw_confidence < MinConfidenceToProcess
    THEN [status |-> "success", adjusted_confidence |-> in.raw_confidence,
          context_factors |-> {}, guardrail_skip_downstream |-> "true"]
    ELSE LET factors ==
                 (IF in.tier \in {1, 2} THEN {"tier"} ELSE {})
                 \cup (IF in.high_impact_role THEN {"role"} ELSE {})
                 \cup (IF in.local_time = "off_hours" THEN {"off_hours"} ELSE {})
                 \cup (IF in.patch_status = "unpatched" THEN {"unpatched"} ELSE {})
             score == in.raw_confidence
                        + (IF in.tier = 1 THEN WeightTier1
                           ELSE IF in.tier = 2 THEN WeightTier2 ELSE 0)
                        + Flag(in.high_impact_role, WeightHighImpactRole)
                        + Flag(in.local_time = "off_hours", WeightOffHours)
                        + Flag(in.patch_status = "unpatched", WeightUnpatched)
         IN  [status |-> "success", adjusted_confidence |-> Least(100, score),
              context_factors |-> factors, guardrail_skip_downstream |-> "false"]

\* total_events is len(timeline) of a returned timeline, 0 otherwise
build_timeline(in) ==
    IF ~in.valid
    THEN [status |-> "error", total_events |-> 0, guardrail_skip_downstream |-> "absent"]
    ELSE IF ~in.detected
    THEN [status |-> "success", total_events |-> 0, guardrail_skip_downstream |-> "true"]
    ELSE IF in.events = 0
    THEN [status |-> "success", total_events |-> 0, guardrail_skip_downstream |-> "true"]
    ELSE [status |-> "success", total_events |-> in.events,
          guardrail_skip_downstream |-> "absent"]

DetectionInputs ==
    [authenticated : BOOLEAN, agent_found : BOOLEAN,
     file_count : {0, 501, 1001}, encrypted_files : {0, 1, 51},
     high_entropy : {0, 11, 51}, suspicious_procs : BOOLEAN,
     shadow_deletion : BOOLEAN, defender_stopped : BOOLEAN]
ScoringInputs ==
    [valid : BOOLEAN, detected : BOOLEAN,
     raw_confidence : {0, MinConfidenceToProcess - 1, MinConfidenceToProcess, 100},
     tier : 1..3, high_impact_role : BOOLEAN,
     local_time : {"business_hours", "off_hours", "raised"},
     patch_status : {"patched", "unpatched", "raised"}]
TimelineInputs == [valid : BOOLEAN, detected : BOOLEAN, events : 0..2]

RansomwareInit ==
    /\ pc = "unit"
    /\ \/ \E in \in DetectionInputs :
             unit = [fn |-> "detect_ransomware", done |-> FALSE, in |-> in,
                     out |-> DetectionError]
       \/ \E in \in ScoringInputs :
             unit = [fn |-> "apply_context_scoring", done |-> FALSE, in |-> in,
                     out |-> ScoringError]
       \/ \E in \in TimelineInputs :
             unit = [fn |-> "build_timeline", done |-> FALSE, in |-> in,
                     out |-> build_timeline([valid |-> FALSE])]
    /\ call = NoCall
    /\ result = None
    /\ PipelineIdle
    /\ TablesIdle

DetectRansomware ==
    /\ pc = "unit"
    /\ unit.fn = "detect_ransomware"
    /\ ~unit.done
    /\ unit' = [unit EXCEPT !.done = TRUE, !.out = detect_ransomware(unit.in)]
    /\ UNCHANGED <<pc, solverVars, pipelineVars, tableVars>>

AnalyzeRansomwareContext ==
    /\ pc = "unit"
    /\ unit.fn = "apply_context_scoring"
    /\ ~unit.done
    /\ unit' = [unit EXCEPT !.done = TRUE, !.out = apply_context_scoring(unit.in)]
    /\ UNCHANGED <<pc, solverVars, pipelineVars, tableVars>>

AnalyzeAttackTimeline ==
    /\ pc = "unit"
    /\ unit.fn = "build_timeline"
    /\ ~unit.done
    /\ unit' = [unit EXCEPT !.done = TRUE, !.out = build_timeline(unit.in)]
    /\ UNCHANGED <<pc, solverVars, pipelineVars, tableVars>>

Init ==
    \/ SolverInit \/ AnalyzeInit \/ ConfidenceInit \/ FitInit \/ DedupInit \/ GapsInit
    \/ OutliersInit
    \/ SeriesInit
    \/ RansomwareInit

Next ==
    \/ SolveForThreshold
    \/ analyze_repository
    \/ ClassifyConfidence
    \/ FitModel
    \/ AnalyzeDedupTrend
    \/ InterpolateGaps
    \/ RemoveOutliers
    \/ AnalyzeLineSeries
    \/ DetectRansomware
    \/ AnalyzeRansomwareContext
    \/ AnalyzeAttackTimeline

Spec == Init /\ [][Next]_vars

\* ---------------------------------------------------------------- the forecast table
\* a row of feature2.metrics_capacity_forecast: its key and two of its columns
ForecastRow(repository_id, created_date, f) ==
    [repository_id |-> repository_id, created_date |-> created_date,
     sample_count |-> f.sample_count, outliers_removed |-> f.outliers_removed]

SameKey(r, row) ==
    r.repository_id = row.repository_id /\ r.created_date = row.created_date

\* ON CONFLICT ... DO UPDATE SET that leaves outliers_removed out of the list
UpsertKeepsOutliersRemoved(rows, row) ==
    IF \E r \in rows : SameKey(r, row)
    THEN {IF SameKey(r, row)
          THEN [r EXCEPT !.sample_count = row.sample_count]
          ELSE r : r \in rows}
    ELSE rows \cup {row}

\* INSERT ... ON CONFLICT (repository_id, created_date) DO UPDATE SET every
\* column = EXCLUDED.column
Upsert(rows, row) ==
    IF \E r \in rows : SameKey(r, row)
    THEN {IF SameKey(r, row)
          THEN [r EXCEPT !.sample_count = row.sample_count,
                         !.outliers_removed = row.outliers_removed]
          ELSE r : r \in rows}
    ELSE rows \cup {row}

\* the last committed write for each key, and whether it replaced a different
\* record of the same key
Supersede(writes, row) ==
    {e \in writes : ~SameKey(e.row, row)}
    \cup {[row |-> row,
           replaced |-> \E e \in writes : SameKey(e.row, row) /\ e.row # row]}

\* ---------------------------------------------------------------- run()
RepoList == <<"r1", "r2", "r3">>
Repos == {RepoList[k] : k \in DOMAIN RepoList}

\* what analyze_repository finds for a repository: rows of history read, rows
\* left after gap handling and dropna, samples removed as outliers
Profiles ==
    [history_len : {MIN_DAYS - 1, MIN_DAYS},
     len_df : {MIN_DAYS - 1, MIN_DAYS},
     outliers_removed : {0, 1}]

\* the two "return None" of analyze_repository
EarlyReturn(p) == p.history_len < MIN_DAYS \/ p.len_df < MIN_DAYS

\* len(x) once the outliers are masked out
SamplesFitted(p) == p.len_df - p.outliers_removed

NoProfile == [history_len |-> 0, len_df |-> 0, outliers_removed |-> 0]
NoLog == [result |-> "", profile |-> NoProfile]

RunInit ==
    /\ pc = "run"
    /\ run = [pc |-> "start", repos |-> <<>>, i |-> 0,
              measured |-> [r \in Repos |-> ""], log |-> [r \in Repos |-> NoLog]]
    /\ store = {}
    /\ history = {}
    /\ txn = NoTxn
    /\ today = 1
    /\ last = {}
    /\ call = NoCall
    /\ result = None
    /\ PipelineIdle
    /\ UnitIdle

notRun == <<pc, solverVars, pipelineVars, unit, txn, today>>

\* a loop whose try/except is around the loop, not inside it
LoopEndsOnException(r, after, raised) ==
    IF raised THEN [r EXCEPT !.pc = "done", !.i = 0]
    ELSE IF r.i < Len(r.repos) THEN [r EXCEPT !.i = r.i + 1]
    ELSE [r EXCEPT !.pc = after, !.i = IF after = "done" THEN 0 ELSE 1]

\* the end of one turn of "for repo in repos: try: ... except Exception: log":
\* on to the next repository, or to what follows the loop, raised or not
LoopContinues(r, after, raised) ==
    IF r.i < Len(r.repos) THEN [r EXCEPT !.i = r.i + 1]
    ELSE [r EXCEPT !.pc = after, !.i = IF after = "done" THEN 0 ELSE 1]

\* if not self.veeam.authenticate(): return
Authenticate ==
    /\ pc = "run" /\ run.pc = "start"
    /\ \E ok \in BOOLEAN : run' = [run EXCEPT !.pc = IF ok THEN "list" ELSE "done"]
    /\ UNCHANGED <<notRun, store, history, last>>

\* run() with the analysis loop entered straight after the listing
AfterListingAnalyzes(r, repos) ==
    [r EXCEPT !.repos = repos,
              !.pc = IF repos = <<>> THEN "done" ELSE "analyze",
              !.i = IF repos = <<>> THEN 0 ELSE 1]

\* if not repos: return; else the first loop starts at the first repository
AfterListing(r, repos) ==
    [r EXCEPT !.repos = repos,
              !.pc = IF repos = <<>> THEN "done" ELSE "measure",
              !.i = IF repos = <<>> THEN 0 ELSE 1]

\* repos = self.veeam.get_repositories(); if not repos: return
GetRepositories ==
    /\ pc = "run" /\ run.pc = "list"
    /\ \E repos \in {<<>>, RepoList} : run' = AfterListing(run, repos)
    /\ UNCHANGED <<notRun, store, history, last>>

\* one turn of the first loop: save_current_measurement(repo) in its try/except
SaveMeasurement ==
    /\ pc = "run" /\ run.pc = "measure"
    /\ LET repo == run.repos[run.i]
       IN  \E raises \in BOOLEAN :
             /\ history' = IF raises THEN history ELSE history \cup {<<repo, today>>}
             /\ run' = [LoopContinues(run, "analyze", raises)
                            EXCEPT !.measured[repo] = IF raises THEN "raised" ELSE "saved"]
    /\ UNCHANGED <<notRun, store, last>>

\* one turn of the second loop: analyze_repository(repo), save_forecast if it
\* returned a forecast, both in one try/except
AnalyzeAndSave ==
    /\ pc = "run" /\ run.pc = "analyze"
    /\ LET repo == run.repos[run.i]
           raised == LoopContinues(run, "done", TRUE)
           passed == LoopContinues(run, "done", FALSE)
       IN  \/ \* analyze_repository raises
              /\ run' = [raised EXCEPT !.log[repo] = [result |-> "analysis_raised", profile |-> NoProfile]]
              /\ UNCHANGED <<store, last>>
           \/ \E p \in Profiles, save_raises \in BOOLEAN :
                IF EarlyReturn(p)
                THEN /\ run' = [passed EXCEPT !.log[repo] = [result |-> "none", profile |-> p]]
                     /\ UNCHANGED <<store, last>>
                ELSE LET f == [sample_count |-> SamplesFitted(p),
                               outliers_removed |-> p.outliers_removed]
                         row == ForecastRow(repo, today, f)
                     IN  IF save_raises
                         THEN /\ run' = [raised EXCEPT !.log[repo] = [result |-> "save_raised", profile |-> p]]
                              /\ UNCHANGED <<store, last>>
                         ELSE /\ run' = [passed EXCEPT !.log[repo] = [result |-> "saved", profile |-> p]]
                              /\ store' = Upsert(store, row)
                              /\ last' = Supersede(last, row)
    /\ UNCHANGED <<notRun, history>>

RunNext == Authenticate \/ GetRepositories \/ SaveMeasurement \/ AnalyzeAndSave

RunSpec == RunInit /\ [][RunNext]_vars

\* ---------------------------------------------------------------- save_forecast from two writers
StoreRepos == {"r1", "r2"}
LastDate == 2

\* the forecasts analyze_repository can hand to save_forecast
StoreForecasts ==
    {[sample_count |-> SamplesFitted(p), outliers_removed |-> p.outliers_removed] :
        p \in {q \in Profiles : ~EarlyReturn(q)}}

StoreInit ==
    /\ pc = "store"
    /\ run = NoRun
    /\ store = {}
    /\ history = {}
    /\ txn = NoTxn
    /\ today = 1
    /\ last = {}
    /\ call = NoCall
    /\ result = None
    /\ PipelineIdle
    /\ UnitIdle

notStore == <<pc, solverVars, pipelineVars, unit, run, history>>

\* cur.execute(INSERT ... ON CONFLICT ...): the statement waits while another
\* transaction holds the row of the same key uncommitted
Execute(w) ==
    /\ pc = "store" /\ txn[w].pc = "idle"
    /\ \E repo \in StoreRepos, f \in StoreForecasts :
          LET row == ForecastRow(repo, today, f)
          IN  /\ \A v \in Writers \ {w} :
                    txn[v].pc = "executed" => ~SameKey(txn[v].row, row)
              /\ txn' = [txn EXCEPT ![w] = [pc |-> "executed", row |-> row]]
    /\ UNCHANGED <<notStore, store, today, last>>

\* conn.commit(); conn.close()
Commit(w) ==
    /\ pc = "store" /\ txn[w].pc = "executed"
    /\ store' = Upsert(store, txn[w].row)
    /\ last' = Supersede(last, txn[w].row)
    /\ txn' = [txn EXCEPT ![w] = [pc |-> "idle"]]
    /\ UNCHANGED <<notStore, today>>

\* an exception before the commit: conn.close() discards the statement
Abort(w) ==
    /\ pc = "store" /\ txn[w].pc = "executed"
    /\ txn' = [txn EXCEPT ![w] = [pc |-> "idle"]]
    /\ UNCHANGED <<notStore, store, today, last>>

\* NOW() passes midnight
Midnight ==
    /\ pc = "store" /\ today < LastDate
    /\ today' = today + 1
    /\ UNCHANGED <<notStore, store, txn, last>>

StoreNext == (\E w \in Writers : Execute(w) \/ Commit(w) \/ Abort(w)) \/ Midnight

StoreSpec == StoreInit /\ [][StoreNext]_vars

\* ================================================================ claims
\* what the formulas below read off a state
Returned == pc = "returned"
Analyzed == pc = "analyzed"
CallA == call.coeffs[1]
CallB == call.coeffs[2]
CallC == call.coeffs[3]
CallQ == [a |-> CallA, b |-> CallB,
          D |-> CallB * CallB - 4 * CallA * (CallC - call.threshold)]
CallQuadratic == ~NearZero(CallA)
CallHasFutureRoot == CallQ.D >= 0 /\ \E s \in {1, -1} : RootGT(CallQ, s, call.current_day)

\* the polynomial the solver solves, minus the threshold, at whole day x: the
\* linear part alone when |a| < 1e-6
Excess(coeffs, threshold, x) ==
    (IF NearZero(coeffs[1]) THEN 0 ELSE coeffs[1] * x * x) + coeffs[2] * x + coeffs[3] - threshold

\* the polynomial equals the threshold at some real x with lo <= x < lo + 1: it is
\* zero at lo, or changes sign between lo and lo + 1, or its vertex lies strictly
\* between them with both roots on the vertex's side of lo and not after lo + 1
CrossesWithin(coeffs, threshold, lo) ==
    LET a == IF NearZero(coeffs[1]) THEN 0 ELSE coeffs[1]
        b == coeffs[2]
        g0 == Excess(coeffs, threshold, lo)
        g1 == Excess(coeffs, threshold, lo + 1)
    IN  \/ g0 = 0
        \/ g0 < 0 /\ g1 > 0
        \/ g0 > 0 /\ g1 < 0
        \/ /\ a # 0
           /\ b * b - 4 * a * (coeffs[3] - threshold) >= 0
           /\ a * g0 > 0
           /\ a * g1 >= 0
           /\ IF a > 0 THEN 2 * a * lo < -b /\ -b < 2 * a * (lo + 1)
                       ELSE 2 * a * lo > -b /\ -b > 2 * a * (lo + 1)

\* the coefficients analyze_repository hands to the solver, from its inputs
AdjustedCoeffs == AdjustCoeffs(inputs.model.coeffs, inputs.dedup_adjustment)
Threshold80 == inputs.capacityGB * 80
Threshold90 == inputs.capacityGB * 90
Threshold100 == inputs.capacityGB * 100

\* C1: solve_for_threshold returns None or an integer >= 1, never 0, whether
\* called on its own or for the three thresholds of a forecast.
C1_NoneOrAtLeastOne ==
    /\ Returned => (result.none \/ result.v >= 1)
    /\ Analyzed => \A d \in {forecast.days_to_80, forecast.days_to_90, forecast.days_to_100} :
                       d.none \/ d.v >= 1

\* C2: with a near-zero quadratic coefficient and a slope that is near zero or
\* negative the solver returns None for every threshold and current_day; the
\* forecast of a flat or declining LINEAR model has all three day counts None.
C2_FlatOrDecliningIsNone ==
    /\ (Returned /\ NearZero(CallA) /\ (NearZero(CallB) \/ CallB < 0)) => result = None
    /\ (Analyzed /\ inputs.model.model_type = "LINEAR" /\ inputs.model.coeffs[2] <= 0)
           => /\ forecast.days_to_80 = None
              /\ forecast.days_to_90 = None
              /\ forecast.days_to_100 = None

\* C2 witness: a declining line that is above the threshold now and falls through
\* it after current_day, and the solver returned None.
C2_Witness ==
    /\ Returned /\ CallA = 0 /\ CallB < 0
    /\ CallC - call.threshold > (-CallB) * call.current_day
    /\ result = None

\* C3: in the quadratic case with a real root after current_day the solver
\* returns trunc(r - current_day) for the smallest root r after current_day.
C3_EarliestFutureRoot ==
    (Returned /\ CallQuadratic /\ CallHasFutureRoot) =>
        /\ ~result.none
        /\ \E s \in {1, -1} :
              /\ RootGT(CallQ, s, call.current_day)
              /\ \A t \in {1, -1} : RootGT(CallQ, t, call.current_day) => RootLE(CallQ, s, t)
              /\ RootGE(CallQ, s, call.current_day + result.v)
              /\ RootLT(CallQ, s, call.current_day + result.v + 1)

\* C3 witness: both roots are distinct and after current_day, at least a day
\* apart, and the solver returned.
C3_Witness ==
    /\ Returned /\ CallQuadratic /\ CallQ.D > 0
    /\ \A s \in {1, -1} : RootGT(CallQ, s, call.current_day)
    /\ ~result.none
    /\ \E s \in {1, -1} : RootGT(CallQ, s, call.current_day + result.v + 1)

\* C4: in the quadratic case the solver returns None when the discriminant is
\* negative and when no real root is after current_day.
C4_NoRealFutureRootIsNone ==
    (Returned /\ CallQuadratic) =>
        /\ CallQ.D < 0 => result = None
        /\ (CallQ.D >= 0 /\ \A s \in {1, -1} : ~RootGT(CallQ, s, call.current_day))
               => result = None

\* C4 witness: two real roots, none after current_day, one of them on it.
C4_Witness ==
    /\ Returned /\ CallQuadratic /\ CallQ.D > 0
    /\ \A s \in {1, -1} : ~RootGT(CallQ, s, call.current_day)
    /\ \E s \in {1, -1} : RootGE(CallQ, s, call.current_day)
    /\ result = None

\* C5 as stated: the model evaluated at current_day + days_from_now equals the
\* threshold (to within the solver's own epsilon).
C5_RoundTripExact ==
    (Returned /\ ~result.none) =>
        NearZero(Excess(call.coeffs, call.threshold, call.current_day + result.v))

\* C5 amended: the polynomial the solver solves equals the threshold at some
\* real x with current_day + days_from_now <= x < current_day + days_from_now + 1,
\* for a call on its own and for the three day counts of a forecast.
C5_RoundTripWithinADay ==
    /\ (Returned /\ ~result.none)
           => CrossesWithin(call.coeffs, call.threshold, call.current_day + result.v)
    /\ Analyzed =>
           /\ ~forecast.days_to_80.none =>
                  CrossesWithin(AdjustedCoeffs, Threshold80,
                                inputs.current_day + forecast.days_to_80.v)
           /\ ~forecast.days_to_90.none =>
                  CrossesWithin(AdjustedCoeffs, Threshold90,
                                inputs.current_day + forecast.days_to_90.v)
           /\ ~forecast.days_to_100.none =>
                  CrossesWithin(AdjustedCoeffs, Threshold100,
                                inputs.current_day + forecast.days_to_100.v)

\* C5 witness: a quadratic call returned a day count at which the model is not
\* at the threshold.
C5_Witness ==
    /\ Returned /\ CallQuadratic /\ ~result.none /\ result.v >= 1
    /\ Excess(call.coeffs, call.threshold, call.current_day + result.v) # 0

\* the adjusted growth rate b, in units of 1/(Den * FactorDen) GB/day, and the
\* adjusted acceleration a likewise, straight from the inputs
AdjustedB == inputs.model.coeffs[2] * inputs.dedup_adjustment
AdjustedA == inputs.model.coeffs[1] * inputs.dedup_adjustment
One == Den * FactorDen

\* C6 as stated: for every non-None days_to_80 = d the priority is URGENT if
\* d < 15, HIGH if 15 <= d < 30, MEDIUM if 30 <= d < 60 and LOW otherwise.
C6_PriorityFromDays ==
    (Analyzed /\ ~forecast.days_to_80.none) =>
        LET d == forecast.days_to_80.v
        IN  forecast.priority =
                CASE d < URGENT_THRESHOLD_DAYS -> "URGENT"
                  [] d >= URGENT_THRESHOLD_DAYS /\ d < HIGH_THRESHOLD_DAYS -> "HIGH"
                  [] d >= HIGH_THRESHOLD_DAYS /\ d < MEDIUM_THRESHOLD_DAYS -> "MEDIUM"
                  [] OTHER -> "LOW"

\* C7: when days_to_80 is None and the pattern is not DECLINING the priority is
\* LOW and the recommendation is the LOW "Monitor quarterly" text with N/A days.
C7_NoneIsLowMonitor ==
    (Analyzed /\ forecast.days_to_80.none /\ forecast.growth_pattern # "DECLINING") =>
        /\ forecast.priority = "LOW"
        /\ forecast.recommendation.form = "monitor"
        /\ forecast.recommendation.label = "LOW"
        /\ forecast.recommendation.days = None

\* C7 witness: usage grows by at least 1 GB/day, yet no 80% day is predicted.
C7_Witness ==
    /\ Analyzed /\ forecast.days_to_80.none
    /\ forecast.growth_pattern \in {"LINEAR", "QUADRATIC"}
    /\ forecast.growth_rate >= Den
    /\ forecast.priority = "LOW"

\* C8 as stated: recommended_capacity is None exactly when days_to_100 is None,
\* and otherwise total_capacity + 1.2 * (adjusted growth rate * 180).
C8_RecommendedCapacity ==
    Analyzed =>
        /\ forecast.recommended_capacity_gb.none <=> forecast.days_to_100.none
        /\ ~forecast.days_to_100.none =>
               forecast.recommended_capacity_gb.v * FactorDen
                   = inputs.capacityGB * One + AdjustedB * 216

\* C9 as stated: each of the 80% and 100% intervals is (None, None) exactly when
\* its day count d is None, and otherwise (trunc(0.9 d), trunc(1.1 d)), which
\* has d between its ends.
C9_ConfidenceInterval ==
    Analyzed =>
        \A p \in {<<forecast.days_to_80, forecast.days_to_80_ci>>,
                  <<forecast.days_to_100, forecast.days_to_100_ci>>} :
            LET d == p[1]
                ci == p[2]
            IN  /\ ci = <<None, None>> <=> d.none
                /\ ~d.none =>
                       /\ ci = <<Some((9 * d.v) \div 10), Some((11 * d.v) \div 10)>>
                       /\ ci[1].v <= d.v /\ d.v <= ci[2].v

\* C10: growth_pattern is DECLINING when adjusted b < -1, else STABLE when
\* |adjusted b| < 1, else QUADRATIC when the model is quadratic with adjusted
\* a > 0.1, else LINEAR; b = 1 and b = -1 are QUADRATIC or LINEAR.
C10_GrowthPattern ==
    Analyzed =>
        /\ forecast.growth_pattern =
               CASE AdjustedB < -One -> "DECLINING"
                 [] AdjustedB >= -One /\ Abs(AdjustedB) < One -> "STABLE"
                 [] Abs(AdjustedB) >= One /\ AdjustedB >= -One
                    /\ inputs.model.model_type = "QUADRATIC" /\ AdjustedA * 10 > One
                        -> "QUADRATIC"
                 [] OTHER -> "LINEAR"
        /\ Abs(AdjustedB) = One => forecast.growth_pattern \in {"QUADRATIC", "LINEAR"}
        /\ forecast.growth_rate * FactorDen = AdjustedB
        /\ forecast.acceleration * FactorDen = AdjustedA

\* C10 witness: adjusted b is exactly -1 and the pattern is QUADRATIC.
C10_Witness ==
    /\ Analyzed /\ AdjustedB = -One
    /\ forecast.growth_pattern = "QUADRATIC"

\* ---------------------------------------------------------------- C11
UnitDone(fn) == pc = "unit" /\ unit.fn = fn /\ unit.done

\* the cascade of the specification, and the multiplier that goes with each level
ConfidenceAsSpecified(r_squared, n, level, multiplier) ==
    LET high == r_squared >= R_SQUARED_HIGH /\ n >= HighMinSamples
        moderate == ~high /\ r_squared >= R_SQUARED_MODERATE /\ n >= MIN_DAYS
    IN  /\ level \in {"HIGH", "MODERATE", "LOW"}
        /\ (level = "HIGH") <=> high
        /\ (level = "MODERATE") <=> moderate
        /\ (level = "LOW") <=> (~high /\ ~moderate)
        /\ multiplier = (CASE level = "HIGH" -> FactorDen
                           [] level = "MODERATE" -> 8
                           [] OTHER -> 5)
        /\ (r_squared = R_SQUARED_HIGH /\ n = HighMinSamples) => level = "HIGH"
        /\ (r_squared = R_SQUARED_HIGH /\ n = HighMinSamples - 1) => level # "HIGH"

\* C11: the confidence level is HIGH iff r_squared >= r_high and n >= 21, else
\* MODERATE iff r_squared >= r_moderate and n >= min_days, else LOW, n being the
\* number of samples fitted; the multiplier is 1.0 / 0.8 / 0.5; 21 samples at
\* exactly r_high are HIGH and 20 are not.  Checked on the classification called
\* on its own and on every forecast analyze_repository returns.
C11_ConfidenceClassification ==
    /\ UnitDone("confidence") =>
          ConfidenceAsSpecified(unit.r_squared, unit.n, unit.level, unit.multiplier)
    /\ Analyzed =>
          /\ forecast.r_squared = inputs.model.r_squared
          /\ forecast.sample_count = inputs.sample_count
          /\ ConfidenceAsSpecified(forecast.r_squared, forecast.sample_count,
                                   forecast.confidence_level, forecast.confidence_multiplier)

\* r_squared exactly r_high: a forecast from 21 samples is HIGH
C11_Witness ==
    /\ Analyzed
    /\ forecast.r_squared = R_SQUARED_HIGH
    /\ forecast.sample_count = HighMinSamples
    /\ forecast.confidence_level = "HIGH"
    /\ forecast.confidence_multiplier = FactorDen

\* ---------------------------------------------------------------- C12
RunDone == pc = "run" /\ run.pc = "done"
RowsOf(repo) == {r \in store : r.repository_id = repo}
Reached(repo) == run.log[repo].result \in {"none", "saved", "save_raised"}
CleanedLength(repo) == run.log[repo].profile.len_df - run.log[repo].profile.outliers_removed

\* C12: a repository whose series, after gap handling, dropna and outlier
\* removal, has fewer than MIN_DAYS samples gets no forecast: analyze_repository
\* returned None for it and the run wrote no forecast row for it.
C12_NoForecastBelowMinimum ==
    pc = "run" =>
        \A repo \in Repos :
            (Reached(repo) /\ CleanedLength(repo) < MIN_DAYS) =>
                (run.log[repo].result = "none" /\ RowsOf(repo) = {})

\* ---------------------------------------------------------------- C13
RowOfRun(repo) ==
    ForecastRow(repo, today, [sample_count |-> SamplesFitted(run.log[repo].profile),
                              outliers_removed |-> run.log[repo].profile.outliers_removed])

\* C13: an exception while analyzing a repository or saving its forecast does
\* not abort the run: when run() returns after the second loop every repository
\* of the list was analyzed, and every forecast whose save did not raise is in
\* the table, wherever the failing repository stands in the list.
C13_PerRepositoryIsolation ==
    (RunDone /\ run.repos # <<>>) =>
        \A repo \in Repos :
            /\ run.log[repo].result # ""
            /\ run.log[repo].result = "saved" => RowOfRun(repo) \in store
            /\ run.log[repo].result # "saved" => RowsOf(repo) = {}

\* the second of three raises in analysis, the first and the third are saved
C13_Witness ==
    /\ RunDone
    /\ run.log["r2"].result = "analysis_raised"
    /\ run.log["r1"].result = "saved" /\ RowOfRun("r1") \in store
    /\ run.log["r3"].result = "saved" /\ RowOfRun("r3") \in store

\* ---------------------------------------------------------------- C14
\* C14: after any interleaving of save_forecast calls the table holds at most
\* one row per (repository_id, created_date) and that row equals, column by
\* column, the forecast of the last committed write for the key; nothing of an
\* earlier row survives, and the rows of other keys are those of their own last
\* committed writes.
C14_LastCommittedWriteWins ==
    pc = "store" =>
        /\ \A r1 \in store, r2 \in store : SameKey(r1, r2) => r1 = r2
        /\ store = {e.row : e \in last}

\* a committed write replaced a different record of its key while a record of
\* the other repository is in the table
C14_Witness ==
    /\ pc = "store"
    /\ \E e \in last :
          /\ e.replaced
          /\ e.row \in store
          /\ \E r \in store : r.repository_id # e.row.repository_id

\* ---------------------------------------------------------------- C15
Fitted == UnitDone("fit_model")

\* C15: the fitted model is QUADRATIC iff p_value < p_threshold, and then its
\* coefficients are the quadratic fit (a, b, c); otherwise it is LINEAR with
\* coefficients exactly (0, slope, intercept) of the linear fit; every LINEAR
\* model has a = 0 and the result always has three coefficients.
C15_ModelSelection ==
    Fitted =>
        /\ unit.model.model_type \in {"QUADRATIC", "LINEAR"}
        /\ (unit.model.model_type = "QUADRATIC") <=> (unit.model.p_value < P_VALUE_THRESHOLD)
        /\ unit.model.model_type = "QUADRATIC" => unit.model.coeffs = unit.args.coeffs_quad
        /\ unit.model.model_type = "LINEAR" =>
              /\ unit.model.coeffs =
                    <<0, unit.args.coeffs_linear[1], unit.args.coeffs_linear[2]>>
              /\ unit.model.coeffs[1] = 0
        /\ Len(unit.model.coeffs) = 3

\* p_value exactly at the threshold: LINEAR although the quadratic fit has a # 0
C15_Witness ==
    /\ Fitted
    /\ unit.model.p_value = P_VALUE_THRESHOLD
    /\ unit.args.coeffs_quad[1] # 0
    /\ unit.model.model_type = "LINEAR"
    /\ unit.model.coeffs[1] = 0

\* ---------------------------------------------------------------- C16
Singular == unit.args.singular
ZeroStandardError ==
    ~unit.args.singular /\ ~StandardErrorPositive(unit.args.ss_res_quad, unit.args.n)
ZeroVariance == unit.args.ss_tot = 0

\* what C16 says of p_value, of the selection and of r_squared
DegenerateAbsorbed ==
    /\ (Singular \/ ZeroStandardError) =>
          (unit.model.p_value = PDen /\ unit.model.model_type = "LINEAR")
    /\ ZeroVariance => unit.model.r_squared = 0

\* C16 as stated: a singular design matrix or a zero standard error of a gives
\* p_value = 1.0 and LINEAR, zero variance gives r_squared = 0, fit_model
\* returns a model, and in all these cases the confidence level is LOW.
C16_DegenerateIsLow ==
    Fitted =>
        /\ DegenerateAbsorbed
        /\ (Singular \/ ZeroStandardError \/ ZeroVariance) => unit.level = "LOW"

\* C16 amended: the same, with the confidence level LOW for zero variance and
\* for a singular design matrix only; with a zero standard error of a alone the
\* level is the one r_squared and n give.
C16_DegenerateAbsorbed ==
    Fitted =>
        /\ DegenerateAbsorbed
        /\ (Singular \/ ZeroVariance) => unit.level = "LOW"
        /\ unit.level = Confidence(unit.model.r_squared, unit.args.n)[1]

\* 21 samples exactly on a rising line: zero standard error, LINEAR, r_squared
\* 1.0, confidence HIGH
C16_Witness ==
    /\ Fitted
    /\ ZeroStandardError
    /\ ~ZeroVariance
    /\ unit.args.n = HighMinSamples
    /\ unit.model.p_value = PDen
    /\ unit.model.model_type = "LINEAR"
    /\ unit.model.r_squared = Den
    /\ unit.level = "HIGH"

\* ---------------------------------------------------------------- C17
\* the coefficients C17 expects the thresholds to be solved with: a and b of the
\* forecast, c of the fitted model
SolvedWith == <<forecast.acceleration, forecast.growth_rate, inputs.model.coeffs[3]>>
SolvedAt(pct) ==
    solve_for_threshold(SolvedWith, ThresholdAt(inputs.capacityGB * Den, pct),
                        inputs.current_day)

\* C17: the dedup factor multiplies only a and b, which are what the thresholds
\* are solved with and what is reported as acceleration and growth_rate; c, the
\* coefficients of the fitted model itself (adjusted on a copy), model_type,
\* r_squared and sample_count are unchanged; dedup_adjustment_applied is true
\* iff the factor differs from 1.0.
C17_AdjustmentFrame ==
    Analyzed =>
        /\ forecast.acceleration * FactorDen = AdjustedA
        /\ forecast.growth_rate * FactorDen = AdjustedB
        /\ forecast.days_to_80 = SolvedAt(80)
        /\ forecast.days_to_90 = SolvedAt(90)
        /\ forecast.days_to_100 = SolvedAt(100)
        /\ fitted = inputs.model
        /\ forecast.model_type = inputs.model.model_type
        /\ forecast.r_squared = inputs.model.r_squared
        /\ forecast.sample_count = inputs.sample_count
        /\ forecast.dedup_adjustment_applied <=> (inputs.dedup_adjustment # FactorDen)

\* a factor other than 1.0 on a quadratic model: a and b change, a day count is
\* found, the fitted model keeps its coefficients
C17_Witness ==
    /\ Analyzed
    /\ inputs.dedup_adjustment # FactorDen
    /\ forecast.dedup_adjustment_applied
    /\ forecast.acceleration # inputs.model.coeffs[1]
    /\ forecast.growth_rate # inputs.model.coeffs[2]
    /\ ~forecast.days_to_80.none
    /\ fitted.coeffs = inputs.model.coeffs

\* ---------------------------------------------------------------- C18
DedupN == Len(unit.dedup_ratios)
DedupMid == DedupN \div 2
FirstSum == SumSeq(SubSeq(unit.dedup_ratios, 1, DedupMid))
SecondSum == SumSeq(SubSeq(unit.dedup_ratios, DedupMid + 1, DedupN))
\* mean(second) - mean(first), times the two lengths
MeanDiffScaled == SecondSum * DedupMid - FirstSum * (DedupN - DedupMid)
DiffScale == DedupMid * (DedupN - DedupMid)

\* C18: fewer than 10 ratios give UNKNOWN with factor 1.0 and no adjustment; 10
\* or more are split into the first floor(n/2) and the rest, and the result is
\* IMPROVING with the improving factor when mean(second) - mean(first) exceeds
\* the improving threshold, DEGRADING with the degrading factor when it is below
\* the degrading threshold, STABLE with 1.0 otherwise, a difference equal to a
\* threshold included.
C18_DedupTrend ==
    UnitDone("analyze_dedup_trend") =>
        LET got == <<unit.dedup_trend, unit.dedup_adjustment>>
        IN  /\ DedupN < 10 =>
                  (got = <<"UNKNOWN", FactorDen>> /\ ~unit.dedup_adjustment_applied)
            /\ (DedupN >= 10 /\ MeanDiffScaled > DEDUP_IMPROVING_THRESHOLD * DiffScale) =>
                  got = <<"IMPROVING", DEDUP_IMPROVING_ADJUSTMENT>>
            /\ (DedupN >= 10 /\ MeanDiffScaled < DEDUP_DEGRADING_THRESHOLD * DiffScale) =>
                  got = <<"DEGRADING", DEDUP_DEGRADING_ADJUSTMENT>>
            /\ (DedupN >= 10 /\ MeanDiffScaled <= DEDUP_IMPROVING_THRESHOLD * DiffScale
                             /\ MeanDiffScaled >= DEDUP_DEGRADING_THRESHOLD * DiffScale) =>
                  (got = <<"STABLE", FactorDen>> /\ ~unit.dedup_adjustment_applied)

\* eleven ratios, five and six: the difference of the means is exactly the
\* improving threshold and the trend is STABLE
C18_Witness ==
    /\ UnitDone("analyze_dedup_trend")
    /\ DedupN = 11
    /\ MeanDiffScaled = DEDUP_IMPROVING_THRESHOLD * DiffScale
    /\ unit.dedup_trend = "STABLE"
    /\ unit.dedup_adjustment = FactorDen

\* ---------------------------------------------------------------- C19
Gapped == UnitDone("interpolate_gaps")
Days == 1..Len(unit.series)
Missing(i) == unit.series[i].none
Before(i) == PrevObserved(unit.series, i)
After(i) == NextObserved(unit.series, i)
\* the length of the run of consecutive missing days day i belongs to
RunLength(i) == After(i) - Before(i) - 1
InFinalSeries(i) == \E k \in 1..Len(unit.df) : unit.df[k].day = i - 1

\* C19: no day of a run of consecutive missing days longer than max_gap_days is
\* given an interpolated value; every day of such a run stays missing and is
\* absent from the final series.
C19_LongGapsStayMissing ==
    Gapped =>
        \A i \in Days :
            (Missing(i) /\ RunLength(i) > unit.max_gap_days) =>
                (unit.df_daily[i].none /\ ~InFinalSeries(i))

\* ---------------------------------------------------------------- C20
\* the entry of day i lies on the straight line between its observed neighbours
OnLine(i) ==
    /\ ~unit.df_daily[i].none
    /\ (unit.df_daily[i].v - unit.series[Before(i)].v) * (After(i) - Before(i))
         = (unit.series[After(i)].v - unit.series[Before(i)].v) * (i - Before(i))

Cleaned == UnitDone("remove_outliers")

\* the positions of unit.y within threshold * std of the mean, the mean and the
\* std being those of unit.y itself
KeptPositions == {i \in 1..Len(unit.y) : Within(unit.y, i, OUTLIER_THRESHOLD)}

\* unit.y is level but for one far value
OneFarValue ==
    \E i \in 1..Len(unit.y) :
        /\ unit.y[i] = MaxSpike
        /\ \A k \in 1..Len(unit.y) : k # i => unit.y[k] \in {OutlierLevel, OutlierLevel + 1}

\* C21: with fewer than 3 points or zero standard deviation remove_outliers
\* returns its input with count 0; otherwise it returns, in their order, exactly
\* the points with |value - mean| <= threshold * std (mean and std of the input),
\* and a count equal to the input length minus the output length; 30
\* near-constant values with one far value lose exactly 1 point.
C21_OutlierRemoval ==
    Cleaned =>
        /\ (Len(unit.y) < 3 \/ ScaledVariance(unit.y) = 0) =>
              unit.y_clean = unit.y /\ unit.outliers_removed = 0
        /\ (Len(unit.y) >= 3 /\ ScaledVariance(unit.y) # 0) =>
              unit.y_clean = Masked(unit.y, KeptPositions, 1)
        /\ unit.outliers_removed = Len(unit.y) - Len(unit.y_clean)
        /\ (Len(unit.y) = 30 /\ OneFarValue) => unit.outliers_removed = 1

\* 30 near-constant values with one far value, one point removed
C21_Witness ==
    Cleaned /\ Len(unit.y) = 30 /\ OneFarValue /\ unit.outliers_removed = 1

\* the position in the input series of the sample taken on day d
PositionOfDay(d) == CHOOSE k \in 1..Len(unit.x) : unit.x[k] = d

\* the positions remove_outliers kept
KeptByRemoval ==
    IF unit.outliers_removed > 0
    THEN {k \in 1..Len(unit.y) : ~Beyond(unit.y, k, OUTLIER_THRESHOLD)}
    ELSE 1..Len(unit.y)

\* C22: the x and y arrays passed to fit_model have equal length, x[i] is the
\* day index of the sample whose value is y[i], and the days in x are exactly
\* the days of the positions remove_outliers kept.
C22_AlignedAfterOutliers ==
    Cleaned =>
        /\ Len(unit.x_fit) = Len(unit.y_fit)
        /\ unit.y_fit = unit.y_clean
        /\ \A i \in 1..Len(unit.x_fit) :
              /\ \E k \in 1..Len(unit.x) : unit.x[k] = unit.x_fit[i]
              /\ unit.y_fit[i] = unit.y[PositionOfDay(unit.x_fit[i])]
        /\ {unit.x_fit[i] : i \in 1..Len(unit.x_fit)} = {unit.x[k] : k \in KeptByRemoval}
        /\ unit.x_fit = Masked(unit.x, KeptByRemoval, 1)

\* a far value in the middle of the series was removed, and a moved value after
\* it was kept
C22_Witness ==
    /\ Cleaned
    /\ unit.outliers_removed = 1
    /\ \E k \in 2..(Len(unit.y) - 2) :
          /\ Beyond(unit.y, k, OUTLIER_THRESHOLD)
          /\ unit.y[k + 1] = OutlierLevel + 1

\* C29: current_day is the day index of the appended live snapshot, the last
\* sample of the series, even when outliers were removed.
C29_CurrentDayIsLiveSnapshot ==
    Cleaned => unit.current_day = unit.x[Len(unit.x)]

\* ---------------------------------------------------------------- the concrete scenario
\* 60 daily samples growing exactly 5 GB a day and ending at 700 GB, total
\* capacity 1000 GB, no dedup data
Scenario ==
    /\ UnitDone("analyze_repository")
    /\ Len(unit.y) = 60
    /\ unit.y[60] = 700
    /\ \A k \in 1..59 : unit.y[k + 1] - unit.y[k] = 5
    /\ unit.capacityGB = 1000
    /\ unit.dedup_ratios = <<>>

C25_Guardrail ==
    /\ (UnitDone("detect_ransomware") /\ unit.out.status = "success" /\ ~unit.out.detected) =>
          unit.out.guardrail_skip_downstream = "true"
    /\ (UnitDone("apply_context_scoring") /\ unit.out.status = "success"
          /\ (~unit.in.detected \/ unit.in.raw_confidence < MinConfidenceToProcess)) =>
          /\ unit.out.guardrail_skip_downstream = "true"
          /\ unit.out.adjusted_confidence = unit.in.raw_confidence
          /\ unit.out.context_factors = {}
    /\ (UnitDone("build_timeline") /\ unit.out.status = "success" /\ ~unit.in.detected) =>
          unit.out.guardrail_skip_downstream = "true"

\* an undetected alert of full confidence on a tier 1 server, off hours, skipped
C25_Witness ==
    /\ UnitDone("apply_context_scoring")
    /\ unit.out.status = "success"
    /\ ~unit.in.detected
    /\ unit.in.raw_confidence = 100
    /\ unit.in.tier = 1
    /\ unit.in.local_time = "off_hours"
    /\ unit.out.guardrail_skip_downstream = "true"

\* ---------------------------------------------------------------- direction of the crossing
\* C26: whenever solve_for_threshold returns a day count for threshold T, the
\* model value a*x^2 + b*x + c at x = current_day is strictly below T, whether
\* the solver is called on its own or for the three thresholds of a forecast.
C26_CrossingFromBelow ==
    /\ (Returned /\ ~result.none) =>
          Excess(call.coeffs, call.threshold, call.current_day) < 0
    /\ Analyzed =>
          /\ ~forecast.days_to_80.none =>
                Excess(AdjustedCoeffs, ThresholdAt(forecast.total_capacity_gb, 80),
                       inputs.current_day) < 0
          /\ ~forecast.days_to_90.none =>
                Excess(AdjustedCoeffs, ThresholdAt(forecast.total_capacity_gb, 90),
                       inputs.current_day) < 0
          /\ ~forecast.days_to_100.none =>
                Excess(AdjustedCoeffs, ThresholdAt(forecast.total_capacity_gb, 100),
                       inputs.current_day) < 0

\* ---------------------------------------------------------------- order of the predictions
\* d1 and d2 are both day counts and d1 is the later one
Later(d1, d2) == ~d1.none /\ ~d2.none /\ d1.v > d2.v

\* C27: whenever two of days_to_80, days_to_90, days_to_100 are both non-None,
\* the one for the lower threshold is less than or equal to the one for the
\* higher threshold.
C27_OrderedByThreshold ==
    Analyzed =>
        /\ ~Later(forecast.days_to_80, forecast.days_to_90)
        /\ ~Later(forecast.days_to_90, forecast.days_to_100)
        /\ ~Later(forecast.days_to_80, forecast.days_to_100)

\* ---------------------------------------------------------------- priority and recommendation
\* C28: whenever the priority of a forecast is URGENT, HIGH or MEDIUM, its
\* recommendation carries the same label and the same days_to_80 value, and is
\* not one of the texts that tell to monitor.
C28_PriorityAndRecommendationAgree ==
    (Analyzed /\ forecast.priority \in {"URGENT", "HIGH", "MEDIUM"}) =>
        /\ forecast.recommendation.label = forecast.priority
        /\ forecast.recommendation.days = forecast.days_to_80
        /\ forecast.recommendation.form \notin {"monitor", "declining"}

\* ---------------------------------------------------------------- gating and order of run()
MeasurementTried(r) == run.measured[r] # ""
AnalysisTried(r) == run.log[r].result # ""

\* C30: if authentication fails or the repository list is empty, no measurement
\* and no forecast is written; otherwise a save of the current measurement has
\* been attempted for every repository before the first repository is
\* analyzed, and a run that has ended has attempted the save and the analysis
\* of every repository, whichever measurement saves failed.
C30_RunGatingAndOrder ==
    /\ (pc = "run" /\ run.repos = <<>>) =>
          (history = {} /\ store = {} /\ \A r \in Repos : ~MeasurementTried(r) /\ ~AnalysisTried(r))
    /\ (pc = "run" /\ (run.pc = "analyze" \/ \E r \in Repos : AnalysisTried(r))) =>
          \A r \in Repos : MeasurementTried(r)
    /\ (RunDone /\ run.repos # <<>>) =>
          \A r \in Repos : MeasurementTried(r) /\ AnalysisTried(r)

\* the save of the first repository raised, the other two were saved, and all
\* three repositories were analyzed and their forecasts saved
C30_Witness ==
    /\ RunDone
    /\ run.measured["r1"] = "raised"
    /\ history = {<<"r2", today>>, <<"r3", today>>}
    /\ \A r \in Repos : run.log[r].result = "saved"
====
